---- MODULE Spec2Model ----
(***************************************************************************)
(* Model of skrf.media.cpw.CPW (src/skrf/media/cpw.py): the stored fields  *)
(* of a coplanar-waveguide medium, assignment to them, and the property    *)
(* accessors ep_re, k1, K_ratio, alpha_conductor, Z0 and gamma.            *)
(*                                                                         *)
(* Numbers.  A Python number or numpy array is [ty, v]: ty is "int" or     *)
(* "float" (a Python scalar, v of length 1), "array" (a numpy float array, *)
(* one element per frequency sample) or "None".  Lengths are counted in    *)
(* units of 1e-6 m, so the float 70e-6 is Flt(70); what the code computes  *)
(* from w and s is a ratio and does not depend on the unit.  A quotient is *)
(* an exact fraction [n, d] in lowest terms; d = 0 is what IEEE division   *)
(* by zero gives inside numpy (n = 1: inf, n = -1: -inf, n = 0: nan).      *)
(* Transcendental results (log, sqrt, ellipk) are kept as terms over their *)
(* exact arguments.                                                        *)
(***************************************************************************)
EXTENDS Integers, Sequences, FiniteSets, TLC

VARIABLES w, s, ep_r, t, rho, z0, frequency, last, before

store == <<w, s, ep_r, t, rho, z0, frequency>>
vars == <<w, s, ep_r, t, rho, z0, frequency, last, before>>

\* ---------------------------------------------------------------- bounds
\* float widths and gaps run over -1 .. MaxGeom
MaxGeom == 1
\* permittivities run over DefaultEpR .. DefaultEpR + ExtraEpR
ExtraEpR == 1
\* number of samples of the frequency sweep
NPoints == 2

\* ------------------------------------------------- constructor defaults
DefaultW == 70
DefaultS == 4
DefaultEpR == 3

\* ---------------------------------------------------------------- values
None == [ty |-> "None", v |-> <<>>]
Int_(x) == [ty |-> "int", v |-> <<x>>]
Flt(x) == [ty |-> "float", v |-> <<x>>]
Arr(q) == [ty |-> "array", v |-> q]

IsArray(x) == x.ty = "array"
IsScalar(x) == x.ty \in {"int", "float"}
\* element i of a value broadcast over the sweep
Elem(x, i) == IF IsArray(x) THEN x.v[i] ELSE x.v[1]
\* length of the result of an elementwise operation on x and y
Shape(x, y) == IF IsArray(x) THEN Len(x.v) ELSE IF IsArray(y) THEN Len(y.v) ELSE 1

Abs(x) == IF x < 0 THEN -x ELSE x
Sign(x) == IF x < 0 THEN -1 ELSE IF x > 0 THEN 1 ELSE 0

RECURSIVE Gcd(_, _)
Gcd(a, b) == IF b = 0 THEN a ELSE Gcd(b, a % b)

\* the fraction n/d in lowest terms, d >= 0
Frac(n, d) ==
    IF d = 0 THEN [n |-> Sign(n), d |-> 0]
    ELSE LET g == Gcd(Abs(n), Abs(d))
         IN  [n |-> (Sign(d) * n) \div g, d |-> Abs(d) \div g]

\* Python's a // b on integers
FloorDiv(a, b) == IF b > 0 THEN a \div b ELSE (-a) \div (-b)

\* ------------------------------------------------------- accessor results
\* called: the collaborators (surface_resistivity, ellipk) invoked on the way
Ok(val) == [out |-> "ok", val |-> val, called |-> {}]
Raise(e) == [out |-> e, val |-> <<>>, called |-> {}]
Calling(r, c) == [r EXCEPT !.called = @ \cup c]

\* ------------------------------------------------------------- the store
\* the sweep: NPoints samples, in GHz
Sweep == [i \in 1 .. NPoints |-> i]

WVals(n) == {Int_(DefaultW), Flt(DefaultW)} \cup {Flt(x) : x \in -1 .. MaxGeom}
              \cup {Arr([i \in 1 .. n |-> DefaultW + i - 1])}
SVals(n) == {Int_(DefaultS), Flt(DefaultS)} \cup {Flt(x) : x \in -1 .. MaxGeom}
              \cup {Arr([i \in 1 .. n |-> DefaultS + i - 1])}
EpRVals(n) == {Int_(x) : x \in DefaultEpR .. DefaultEpR + ExtraEpR}
              \cup {Arr([i \in 1 .. n |-> DefaultEpR + i - 1])}
\* t: unset, zero, or one positive thickness (the code tests t only for
\* None and divides by it)
TVals == {None, Flt(0), Flt(1)}
\* rho: unset, or one resistivity (its size enters no test of the code)
RhoVals == {None, Flt(1)}
\* z0: unset, or a reference port impedance of 50 ohm
Z0Vals == {None, Int_(50)}

\* last: the most recent accessor read and how it ended, until a field is
\* assigned.  before: the field most recently assigned and the value it held,
\* until the next read.
NoRead == [op |-> "none"]
NoAssign == [field |-> "none"]

\* self as it was before the most recent assignment
Earlier(self) ==
    CASE before.field = "w" -> [self EXCEPT !.w = before.old]
      [] before.field = "s" -> [self EXCEPT !.s = before.old]
      [] before.field = "ep_r" -> [self EXCEPT !.ep_r = before.old]
      [] before.field = "t" -> [self EXCEPT !.t = before.old]
      [] before.field = "rho" -> [self EXCEPT !.rho = before.old]
      [] before.field = "z0" -> [self EXCEPT !.z0 = before.old]
      [] OTHER -> self

\* the stored fields in the current state
Fields == [w |-> w, s |-> s, ep_r |-> ep_r, t |-> t, rho |-> rho, z0 |-> z0,
           frequency |-> frequency]

\* mutant of Self: a snapshot that misses the most recent assignment
SelfStale == Earlier(Fields)

\* what an accessor reads through self
Self == [w |-> w, s |-> s, ep_r |-> ep_r, t |-> t, rho |-> rho, z0 |-> z0,
         frequency |-> frequency]

\* ------------------------------------------------------------- accessors
\* mutant of ep_re: the substrate permittivity taken as the effective one
ep_re_substrate(self) ==
    Ok([ty |-> IF IsArray(self.ep_r) THEN "array" ELSE "float",
        q  |-> [i \in 1 .. Shape(self.ep_r, self.ep_r) |->
                   Frac(Elem(self.ep_r, i), 1)]])

\* ep_re = old_div(ep_r + 1, 2.): the divisor is a float, so a true division
ep_re(self) ==
    Ok([ty |-> IF IsArray(self.ep_r) THEN "array" ELSE "float",
        q  |-> [i \in 1 .. Shape(self.ep_r, self.ep_r) |->
                   Frac(Elem(self.ep_r, i) + 1, 2)]])

\* k1 = old_div(w, w + 2*s): old_div floors when both operands are Python
\* integers and divides truly otherwise; a Python scalar division by zero
\* raises, a numpy one gives inf or nan
k1(self) ==
    LET den(i) == Elem(self.w, i) + 2 * Elem(self.s, i)
    IN  IF IsArray(self.w) \/ IsArray(self.s)
        THEN Ok([ty |-> "array",
                 q  |-> [i \in 1 .. Shape(self.w, self.s) |->
                            Frac(Elem(self.w, i), den(i))]])
        ELSE IF den(1) = 0 THEN Raise("ZeroDivisionError")
        ELSE IF self.w.ty = "int" /\ self.s.ty = "int"
        THEN Ok([ty |-> "int",
                 q  |-> <<[n |-> FloorDiv(self.w.v[1], den(1)), d |-> 1]>>])
        ELSE Ok([ty |-> "float", q |-> <<Frac(self.w.v[1], den(1))>>])

\* mutant of InFirst: the lower bound taken strictly
InFirstStrict(k) == k.d # 0 /\ k.n > 0 /\ 2 * k.n * k.n <= k.d * k.d

\* 0 <= k <= 1/sqrt(2), on an exact fraction: k >= 0 and 2 k^2 <= 1
InFirst(k) == k.d # 0 /\ k.n >= 0 /\ 2 * k.n * k.n <= k.d * k.d
\* 1/sqrt(2) < k <= 1
InSecond(k) == k.d # 0 /\ k.n >= 0 /\ 2 * k.n * k.n > k.d * k.d /\ k.n <= k.d

\* the value of one branch at k: "first" is pi/log(2(1+sqrt k)/(1-sqrt k)),
\* "second" its reciprocal; at k = 1 the quotient by 1 - sqrt(k) = 0.0 is a
\* numpy division, so the second branch is inf there
Ratio(br, k) == [br |-> br, k |-> k, fin |-> ~(br = "second" /\ k.n = k.d)]

\* K_ratio: if / elif on k1 and no else, so Python returns None when neither
\* test holds; the chained comparison of an array of more than one element
\* has no truth value
K_ratio(self) ==
    LET r == k1(self)
    IN  IF r.out # "ok" THEN r
        ELSE IF r.val.ty = "array" /\ Len(r.val.q) > 1 THEN Raise("ValueError")
        ELSE LET k == r.val.q[1]
             IN  IF InFirst(k) THEN Ok(Ratio("first", k))
                 ELSE IF InSecond(k) THEN Ok(Ratio("second", k))
                 ELSE Ok(None)

\* true when a value is a Python scalar equal to zero
ScalarZero(x) == IsScalar(x) /\ x.v[1] = 0

\* one sample of the conductor attenuation, as a term over what it is
\* computed from: r_s(f, rho), ep_re, k1, a = w/2, b = s + w/2 and t
AlphaTerm(self, k, i) ==
    [f |-> self.frequency[i], rho |-> self.rho.v[1], t |-> self.t.v[1],
     a2 |-> Elem(self.w, i), b2 |-> 2 * Elem(self.s, i) + Elem(self.w, i),
     ep |-> Frac(Elem(self.ep_r, i) + 1, 2),
     k |-> IF k.ty = "array" THEN k.q[i] ELSE k.q[1]]

\* alpha_conductor once rho and t are known to be set: k1 is read before
\* surface_resistivity is called, ellipk before the quotients are taken
AlphaBody(self) ==
    LET r == k1(self)
        all == {"surface_resistivity", "ellipk"}
    IN  IF r.out # "ok" THEN r
        \* 1./a with a = old_div(w, 2.) a Python float
        ELSE IF ScalarZero(self.w) THEN Calling(Raise("ZeroDivisionError"), all)
        \* old_div(8*pi*a*(1-k1), t*(1+k1)) on Python scalars
        ELSE IF /\ r.val.ty # "array"
                /\ (self.t.v[1] = 0 \/ r.val.q[1].n + r.val.q[1].d = 0)
        THEN Calling(Raise("ZeroDivisionError"), all)
        ELSE Calling(Ok([i \in 1 .. Len(self.frequency) |->
                            AlphaTerm(self, r.val, i)]), all)

\* mutant of alpha_conductor: the check made after surface_resistivity is called
alpha_conductor_late_check(self) ==
    IF self.rho = None \/ self.t = None
    THEN Calling(Raise("AttributeError"), {"surface_resistivity"})
    ELSE AlphaBody(self)

alpha_conductor(self) ==
    IF self.rho = None \/ self.t = None THEN Raise("AttributeError")
    ELSE AlphaBody(self)

\* x * (1+0j) for a real x: the imaginary part is x*0 + 0*1
TimesOne(x) == [re |-> x, im |-> IF x.fin THEN "0" ELSE "nan"]

\* Z0 = (30.*pi / sqrt(ep_re) * K_ratio) * ones(len(f), dtype='complex')
Z0(self) ==
    LET e == ep_re(self).val
        r == K_ratio(self)
    IN  IF r.out # "ok" THEN r
        ELSE IF r.val = None THEN Raise("TypeError")
        ELSE Ok([i \in 1 .. Len(self.frequency) |->
                    TimesOne([ep |-> IF e.ty = "array" THEN e.q[i] ELSE e.q[1],
                              br |-> r.val.br, k |-> r.val.k,
                              fin |-> r.val.fin])])

\* beta at one sample: 1j*2*pi*f*sqrt(ep_re*epsilon_0*mu_0)
BetaTerm(self, i) ==
    LET e == ep_re(self).val
    IN  [f |-> self.frequency[i],
         ep |-> IF e.ty = "array" THEN e.q[i] ELSE e.q[1]]

\* zeros(len(beta)) at one sample
Zero == [zero |-> TRUE]

\* beta + alpha with alpha = zeros(len(beta))
Lossless(self) ==
    Ok([i \in 1 .. Len(self.frequency) |->
           [re |-> Zero, im |-> BetaTerm(self, i)]])

\* beta + alpha with alpha = self.alpha_conductor
Lossy(self) ==
    LET a == alpha_conductor(self)
    IN  IF a.out # "ok" THEN a
        ELSE [a EXCEPT !.val = [i \in 1 .. Len(self.frequency) |->
                                   [re |-> a.val[i], im |-> BetaTerm(self, i)]]]

\* mutant of gamma: alpha_conductor read whether or not rho and t are set
gamma_unguarded(self) == Lossy(self)

\* mutant of gamma: the attenuation term left at zero
gamma_no_loss(self) == Lossless(self)

gamma(self) ==
    IF self.rho # None /\ self.t # None THEN Lossy(self) ELSE Lossless(self)

Accessors == {"ep_re", "k1", "K_ratio", "alpha_conductor", "Z0", "gamma"}

Eval(a, self) ==
    CASE a = "ep_re" -> ep_re(self)
      [] a = "k1" -> k1(self)
      [] a = "K_ratio" -> K_ratio(self)
      [] a = "alpha_conductor" -> alpha_conductor(self)
      [] a = "Z0" -> Z0(self)
      [] a = "gamma" -> gamma(self)

\* ------------------------------------------------------------ operations
SameResult(x, y) ==
    x.out = y.out /\ x.called = y.called /\ (x.out = "ok" => x.val = y.val)

\* CPW.__init__: Media.__init__ keeps frequency and z0, the rest is stored
Init ==
    /\ frequency = Sweep
    /\ z0 \in Z0Vals
    /\ w \in WVals(NPoints)
    /\ s \in SVals(NPoints)
    /\ ep_r \in EpRVals(NPoints)
    /\ t \in TVals
    /\ rho \in RhoVals
    /\ last = NoRead
    /\ before = NoAssign

\* mutant of Read: reading Z0 resets the reference impedance z0
ReadResetting(a) ==
    /\ LET r == Eval(a, Self)
       IN  last' = [op |-> a, out |-> r.out, val |-> r.val, called |-> r.called,
                    changed |-> ~SameResult(r, Eval(a, Earlier(Self)))]
    /\ before' = NoAssign
    /\ z0' = IF a = "Z0" THEN None ELSE z0
    /\ UNCHANGED <<w, s, ep_r, t, rho, frequency>>

\* reading the property a: computed from self, nothing stored
Read(a) ==
    /\ LET r == Eval(a, Self)
       IN  last' = [op |-> a, out |-> r.out, val |-> r.val, called |-> r.called,
                    changed |-> ~SameResult(r, Eval(a, Earlier(Self)))]
    /\ before' = NoAssign
    /\ UNCHANGED store

\* the caller assigning a stored field
SetW(x) ==
    /\ w' = x
    /\ before' = [field |-> "w", old |-> w]
    /\ last' = NoRead
    /\ UNCHANGED <<s, ep_r, t, rho, z0, frequency>>

SetS(x) ==
    /\ s' = x
    /\ before' = [field |-> "s", old |-> s]
    /\ last' = NoRead
    /\ UNCHANGED <<w, ep_r, t, rho, z0, frequency>>

SetEpR(x) ==
    /\ ep_r' = x
    /\ before' = [field |-> "ep_r", old |-> ep_r]
    /\ last' = NoRead
    /\ UNCHANGED <<w, s, t, rho, z0, frequency>>

SetT(x) ==
    /\ t' = x
    /\ before' = [field |-> "t", old |-> t]
    /\ last' = NoRead
    /\ UNCHANGED <<w, s, ep_r, rho, z0, frequency>>

SetRho(x) ==
    /\ rho' = x
    /\ before' = [field |-> "rho", old |-> rho]
    /\ last' = NoRead
    /\ UNCHANGED <<w, s, ep_r, t, z0, frequency>>

SetZ0(x) ==
    /\ z0' = x
    /\ before' = [field |-> "z0", old |-> z0]
    /\ last' = NoRead
    /\ UNCHANGED <<w, s, ep_r, t, rho, frequency>>

Next ==
    \/ \E a \in Accessors : Read(a)
    \/ \E x \in WVals(Len(frequency)) : SetW(x)
    \/ \E x \in SVals(Len(frequency)) : SetS(x)
    \/ \E x \in EpRVals(Len(frequency)) : SetEpR(x)
    \/ \E x \in TVals : SetT(x)
    \/ \E x \in RhoVals : SetRho(x)
    \/ \E x \in Z0Vals : SetZ0(x)

Spec == Init /\ [][Next]_vars

\* ---------------------------------------------------------------- claims
MissingParameter == "AttributeError"
Unset == t = None \/ rho = None
LastResult == [out |-> last.out, val |-> last.val, called |-> last.called]
ScalarGeometry == IsScalar(w) /\ IsScalar(s)
\* every element of x is positive
Positive(x) == \A i \in 1 .. Len(x.v) : x.v[i] > 0

\* C1, as stated: a read of gamma with t or rho (or both) unset ends in the
\* missing-parameter error.
C1_GammaRaisesWhenUnset ==
    (last.op = "gamma" /\ Unset) => last.out = MissingParameter

\* C1, amended: a read of gamma with t or rho (or both) unset raises nothing;
\* it returns one value per frequency sample without calling a collaborator.
\* The missing-parameter error comes only from a read of alpha_conductor
\* with t or rho unset.
C1_GammaLosslessWhenUnset ==
    /\ (last.op = "gamma" /\ Unset) =>
          /\ last.out = "ok"
          /\ Len(last.val) = Len(frequency)
          /\ last.called = {}
    /\ (last.op \in Accessors /\ last.out = MissingParameter) =>
          last.op = "alpha_conductor" /\ Unset

C1_Witness ==
    last.op = "gamma" /\ t = None /\ rho # None /\ last.out = "ok"

\* Scalar geometry on which alpha_conductor divides a Python float by zero:
\* w + 2s = 0 (in k1), w = 0 (in 1./a), t = 0 or k1 = -1 (in t*(1+k1)).
FloorsToMinusOne ==
    /\ w.ty = "int" /\ s.ty = "int"
    /\ FloorDiv(w.v[1], w.v[1] + 2 * s.v[1]) = -1
DividesByZero ==
    /\ IsScalar(w)
    /\ \/ w.v[1] = 0
       \/ /\ IsScalar(s)
          /\ \/ w.v[1] + 2 * s.v[1] = 0
             \/ t.v[1] = 0
             \/ IF w.ty = "int" /\ s.ty = "int" THEN FloorsToMinusOne
                ELSE w.v[1] + s.v[1] = 0

\* C2, as stated: a read of alpha_conductor ends in the missing-parameter
\* error exactly when t or rho is unset, before any collaborator is called,
\* and returns an array whenever both are set.
C2_AlphaArrayWheneverSet ==
    last.op = "alpha_conductor" =>
        /\ (last.out = MissingParameter) <=> Unset
        /\ last.out = MissingParameter => last.called = {}
        /\ ~Unset => last.out = "ok" /\ Len(last.val) = Len(frequency)

\* C2, amended: a read of alpha_conductor ends in the missing-parameter error
\* exactly when t or rho is unset, before any collaborator is called; with
\* both set it returns one value per frequency sample, unless scalar geometry
\* makes a Python division by zero (w = 0, w + 2s = 0, t = 0 or k1 = -1),
\* which ends in ZeroDivisionError.
C2_AlphaMissingIffUnset ==
    last.op = "alpha_conductor" =>
        /\ (last.out = MissingParameter) <=> Unset
        /\ last.out = MissingParameter => last.called = {}
        /\ ~Unset =>
              IF DividesByZero THEN last.out = "ZeroDivisionError"
              ELSE /\ last.out = "ok"
                   /\ Len(last.val) = Len(frequency)
                   /\ "surface_resistivity" \in last.called

C2_Witness ==
    /\ last.op = "alpha_conductor" /\ t = None /\ rho # None
    /\ last.out = MissingParameter

\* C3: in a read of gamma the attenuation term is alpha_conductor when t and
\* rho are both set (gamma ends as alpha_conductor ends, and its real part is
\* alpha_conductor's value at every sample); when either is unset the real
\* part is zero at every sample and the imaginary part is the beta term.
C3_GammaAttenuation ==
    last.op = "gamma" =>
        IF ~Unset
        THEN LET a == alpha_conductor(Fields)
             IN  /\ last.out = a.out
                 /\ a.out = "ok" =>
                       \A i \in 1 .. Len(frequency) : last.val[i].re = a.val[i]
        ELSE /\ last.out = "ok"
             /\ \A i \in 1 .. Len(frequency) :
                   /\ last.val[i].re = Zero
                   /\ last.val[i].im =
                         [f |-> frequency[i], ep |-> Frac(Elem(ep_r, i) + 1, 2)]

C3_Witness ==
    /\ last.op = "gamma" /\ ~Unset /\ last.out = "ok"
    /\ last.val[1].re # Zero

\* C4: a read of k1 with positive scalar w and s returns w / (w + 2s), a
\* value strictly between 0 and 1, whatever the numeric type of w and s.
C4_K1IsQuotientInUnitInterval ==
    (last.op = "k1" /\ ScalarGeometry /\ Positive(w) /\ Positive(s)) =>
        /\ last.out = "ok"
        /\ last.val.q[1] = Frac(w.v[1], w.v[1] + 2 * s.v[1])
        /\ 0 < last.val.q[1].n /\ last.val.q[1].n < last.val.q[1].d

\* C5: a read of Z0 or gamma returns one value per frequency sample, for
\* scalar w, s and ep_r and for per-sample arrays alike (positive geometry,
\* and a positive thickness when one is set).
C5_LengthForScalarAndArray ==
    (/\ last.op \in {"Z0", "gamma"}
     /\ Positive(w) /\ Positive(s) /\ Positive(ep_r)
     /\ t # None => Positive(t)) =>
        last.out = "ok" /\ Len(last.val) = Len(frequency)

\* the code's k1 on scalar geometry lies outside [0, 1], or cannot be formed
K1OutOfRange ==
    /\ ScalarGeometry
    /\ LET r == k1(Fields)
       IN  r.out = "ok" => (r.val.q[1].n < 0 \/ r.val.q[1].n > r.val.q[1].d)

\* C6: a read of K_ratio with k1 outside [0, 1] ends in an error; it never
\* returns to its caller.
C6_KRatioRaisesOutOfRange ==
    (last.op = "K_ratio" /\ K1OutOfRange) => last.out # "ok"

\* the code's k1 on scalar geometry lies in [0, 1]
K1InRange ==
    /\ ScalarGeometry
    /\ LET r == k1(Fields)
       IN  r.out = "ok" /\ 0 <= r.val.q[1].n /\ r.val.q[1].n <= r.val.q[1].d

C8_ReadsSeeCurrentFields ==
    last.op \in Accessors => SameResult(LastResult, Eval(last.op, Fields))

\* a read that follows an assignment and whose result the assignment changed
C8_Witness ==
    last.op = "Z0" /\ last.out = "ok" /\ last.changed

\* C9: a step that reads an accessor leaves w, s, ep_r, t, rho, z0 and the
\* frequency sweep as they were, whether the read returns or raises.
C9_ReadsLeaveStore ==
    [][last'.op \in Accessors => store' = store]_vars

\* a read that ended in an error
C9_Witness ==
    last.op \in Accessors /\ last.out # "ok"

ScalarInputs == ScalarGeometry /\ IsScalar(ep_r)
\* Z0 is (30 pi / sqrt((ep_r+1)/2)) * K_ratio at every sample, imaginary part
\* zero, and is the same with t, rho and z0 unset
Z0IsBroadcastReal ==
    LET kr == K_ratio(Fields).val
        x == [ep |-> Frac(ep_r.v[1] + 1, 2), br |-> kr.br, k |-> kr.k,
              fin |-> kr.fin]
    IN  /\ last.out = "ok"
        /\ Len(last.val) = Len(frequency)
        /\ \A i \in 1 .. Len(frequency) : last.val[i] = [re |-> x, im |-> "0"]
        /\ \A i \in 1 .. Len(frequency) : last.val[i] = last.val[1]
        /\ SameResult(LastResult,
                      Z0([Fields EXCEPT !.t = None, !.rho = None, !.z0 = None]))

\* C10, as stated: for scalar geometry with k1 in [0, 1], Z0 is one real
\* value repeated at every sample, independent of t, rho and z0.
C10_Z0RealOnClosedRange ==
    (last.op = "Z0" /\ ScalarInputs /\ K1InRange) => Z0IsBroadcastReal

\* C10, amended: for scalar geometry with 0 <= k1 < 1, Z0 is the one value
\* (30 pi / sqrt(ep_re)) * K_ratio repeated at every sample, with imaginary
\* part exactly zero, independent of t, rho and z0.
C10_Z0RealBelowOne ==
    (/\ last.op = "Z0" /\ ScalarInputs /\ K1InRange
     /\ k1(Fields).val.q[1].n < k1(Fields).val.q[1].d) => Z0IsBroadcastReal

C10_Witness ==
    /\ last.op = "Z0" /\ ScalarInputs /\ K1InRange /\ last.out = "ok"
    /\ t # None /\ rho # None /\ z0 # None
    /\ last.val[1].im = "0"

====
